---- MODULE Spec2Model ----
(***************************************************************************)
(* Model of scripts/sync-spec.ts, the content synchronizer of the          *)
(* OpenWorkflow documentation site: source resolution (getSpecDirectory),  *)
(* the four sync operations (syncSpecs, syncExamples, syncRootDocs,        *)
(* createReferenceIndex) and their orchestration (main).                   *)
(*                                                                         *)
(* Text is a sequence of lexemes (strings): a file name such as            *)
(* connector-schema.md is <<"connector", "-", "schema", ".md">>, a body is *)
(* the sequence of its link, table and text lexemes.  A markdown file is a *)
(* record [data, body]: data maps every front-matter key to its value (a   *)
(* lexeme sequence; NoField when the key is absent, <<>> when it is set to *)
(* an empty value), body is the text after the front-matter block.         *)
(***************************************************************************)
EXTENDS Integers, Sequences, FiniteSets, TLC

\* ------------------------------------------------------------------ bounds

\* How many runs of main are started in succession on the same trees.
MaxRuns == 2

\* How many lexemes the target of a generated link has at most.
MaxTargetLen == 4

\* How many lexemes a generated table text has at most.
MaxTableLen == 5

\* The lexemes of a specification file name, '.md' included.
MaxNameLen == 4

\* ------------------------------------------------------- lexeme sequences

Last(s) == s[Len(s)]

RECURSIVE IndexFrom(_, _, _)
\* The least index j >= i with s[j] = x, or 0 when there is none.
IndexFrom(s, x, i) ==
  IF i > Len(s) THEN 0
  ELSE IF s[i] = x THEN i
  ELSE IndexFrom(s, x, i + 1)

RECURSIVE LastIndexIn(_, _, _, _)
\* The greatest index j in lo..hi with s[j] = x, or 0 when there is none.
LastIndexIn(s, x, lo, hi) ==
  IF hi < lo THEN 0
  ELSE IF s[hi] = x THEN hi
  ELSE LastIndexIn(s, x, lo, hi - 1)

\* Whether the lexemes of p stand in s from index i on.
MatchesAt(s, p, i) ==
  /\ i + Len(p) - 1 <= Len(s)
  /\ \A k \in 1..Len(p) : s[i + k - 1] = p[k]

\* String.prototype.replace(pattern, '') with a string pattern: the first
\* occurrence of lexeme x is removed, every other lexeme is kept.
ReplaceFirst(s, x) ==
  LET i == IndexFrom(s, x, 1)
  IN  IF i = 0 THEN s ELSE SubSeq(s, 1, i - 1) \o SubSeq(s, i + 1, Len(s))

RECURSIVE Split(_, _)
\* String.prototype.split(sep): the segments between the occurrences of sep.
Split(s, sep) ==
  LET i == IndexFrom(s, sep, 1)
  IN  IF i = 0 THEN <<s>>
      ELSE <<SubSeq(s, 1, i - 1)>> \o Split(SubSeq(s, i + 1, Len(s)), sep)

RECURSIVE Join(_, _)
\* Array.prototype.join(sep).
Join(segs, sep) ==
  IF Len(segs) = 0 THEN <<>>
  ELSE IF Len(segs) = 1 THEN segs[1]
  ELSE segs[1] \o <<sep>> \o Join(Tail(segs), sep)

\* ------------------------------------------------------ link substitution

RECURSIVE SpecLinks(_, _)

RECURSIVE ReplaceLinks(_, _, _, _, _)
\* s.replace(/\]\(<prefix>([^)]+<suffix>)\)/g, '](<repl>$1)') and, with
\* keep = FALSE, s.replace(/\]\(<prefix><suffix>\)/g, '](<repl>)').
\* prefix, suffix and repl are lexeme sequences.  A match starts at "](",
\* prefix follows, the group runs to the first ")" and is not empty; with a
\* suffix the group ends in it and has at least one lexeme before it.  The
\* scan goes on after the ")" of a match and one lexeme on otherwise.
ReplaceLinks(s, prefix, suffix, repl, keep) ==
  IF Len(s) = 0 THEN <<>>
  ELSE
    LET head  == <<"](">> \o prefix
        start == Len(head) + 1
        close == IndexFrom(s, ")", start)
        group == SubSeq(s, start, close - 1)
        fits  == /\ MatchesAt(s, head, 1)
                 /\ close # 0
                 /\ IF keep
                    THEN /\ Len(group) >= Len(suffix) + 1
                         /\ MatchesAt(group, suffix, Len(group) - Len(suffix) + 1)
                    ELSE group = suffix
    IN  IF fits
        THEN <<"](">> \o repl \o (IF keep THEN group ELSE <<>>) \o <<")">>
             \o ReplaceLinks(SubSeq(s, close + 1, Len(s)), prefix, suffix, repl, keep)
        ELSE <<s[1]>> \o ReplaceLinks(Tail(s), prefix, suffix, repl, keep)

RECURSIVE EscapeTables(_)
\* s.replace(/\|([^|]*)<([^|]*)\|/g, (m, before, after) =>
\*   `|${before}&lt;${after}|`): a match runs from a "|" to the next "|" and
\* has a "<" between them; the first group is greedy, so the "<" replaced
\* is the last one of the match.  The scan goes on after the closing "|".
EscapeTables(s) ==
  IF Len(s) = 0 THEN <<>>
  ELSE
    LET close == IndexFrom(s, "|", 2)
        lt    == LastIndexIn(s, "<", 2, close - 1)
    IN  IF s[1] = "|" /\ close # 0 /\ lt # 0
        THEN SubSeq(s, 1, lt - 1) \o <<"&lt;">> \o SubSeq(s, lt + 1, close)
             \o EscapeTables(SubSeq(s, close + 1, Len(s)))
        ELSE <<s[1]>> \o EscapeTables(Tail(s))

\* ------------------------------------------------------------ front-matter

\* interface FrontMatter, and one key it does not name.
Keys == {"id", "title", "sidebar_label", "sidebar_position", "description", "tags"}

\* The value of a key the front-matter block does not hold.
NoField == <<"(undefined)">>

\* parsed.data of a document without front-matter: {}.
NoData == [k \in Keys |-> NoField]

\* An object literal: the keys of flds with their values, no other key.
Obj(flds) == [k \in Keys |-> IF k \in DOMAIN flds THEN flds[k] ELSE NoField]

\* a || b on front-matter values: undefined and '' are falsy.
OrElse(a, b) == IF a = NoField \/ a = <<>> THEN b ELSE a

\* { ...data, ...lit }: the spread written first, so that every key of the
\* literal overrides the source's.
Spread_DefaultsWin(lit, data) ==
  [k \in Keys |-> IF lit[k] # NoField THEN lit[k] ELSE data[k]]

\* { ...lit, ...data }: every key data holds overrides the literal's.
Spread(lit, data) == [k \in Keys |-> IF data[k] # NoField THEN data[k] ELSE lit[k]]

\* gray-matter's newline(): the text ends in a line break.
Newline(str) == IF Len(str) > 0 /\ Last(str) = "\n" THEN str ELSE str \o <<"\n">>

\* matter(content): the front-matter block and the text after it.
Matter(content) == [data |-> content.data, content |-> content.body]

\* matter.stringify(content, data): the block of data, then the text.
Stringify(content, data) == [data |-> data, body |-> Newline(content)]

\* w.charAt(0).toUpperCase() + w.slice(1) on the first lexeme of a segment.
UpperFirst(w) ==
  CASE w = "connector" -> "Connector"
    [] w = "schema"    -> "Schema"
    [] w = "overview"  -> "Overview"
    [] w = "notes"     -> "Notes"
    [] OTHER           -> w

Capitalize(seg) == IF Len(seg) = 0 THEN seg ELSE <<UpperFirst(seg[1])>> \o Tail(seg)

\* file.replace('.md', '')
FileId(file) == ReplaceFirst(file, ".md")

\* The title with its first segment capitalised only.
BaseTitle_Sentence(file) ==
  LET segs == Split(FileId(file), "-")
  IN  Join([i \in 1..Len(segs) |-> IF i = 1 THEN Capitalize(segs[i]) ELSE segs[i]], " ")

\* file.replace('.md', '').split('-').map(capitalize).join(' ')
BaseTitle(file) ==
  LET segs == Split(FileId(file), "-")
  IN  Join([i \in 1..Len(segs) |-> Capitalize(segs[i])], " ")

\* The frontMatter object syncSpecs builds for a specification file.
SpecFrontMatter(file, data) ==
  Spread(Obj([id            |-> FileId(file),
              title         |-> OrElse(data["title"], BaseTitle(file)),
              sidebar_label |-> OrElse(data["sidebar_label"], BaseTitle(file)),
              description   |-> OrElse(data["description"],
                                       BaseTitle(file) \o <<" specification">>)]),
         data)

\* The n-th link substitution of syncSpecs applied to s.
SpecLinkRule(n, s) ==
  CASE n = 1 -> ReplaceLinks(s, <<"./">>, <<".md">>, <<"./">>, TRUE)
    [] n = 2 -> ReplaceLinks(s, <<"../", "examples/">>, <<>>, <<"../", "examples/">>, TRUE)
    [] n = 3 -> ReplaceLinks(s, <<"./", "docs/reference/">>, <<>>, <<"./">>, TRUE)
    [] n = 4 -> ReplaceLinks(s, <<"./", "docs/examples/">>, <<>>, <<"../", "examples/">>, TRUE)

\* The content after the first n link substitutions of syncSpecs.
SpecLinks(n, content) ==
  IF n = 0 THEN content ELSE SpecLinkRule(n, SpecLinks(n - 1, content))

\* The four link substitutions and the table escape of syncSpecs, in order.
SpecBody(content) == EscapeTables(SpecLinks(4, content))

\* What syncSpecs writes for the specification file `file` with text `raw`.
SpecOutput(file, raw) ==
  LET parsed == Matter(raw)
  IN  Stringify(SpecBody(parsed.content), SpecFrontMatter(file, parsed.data))

\* ------------------------------------------------------------- file names

README       == <<"README", ".md">>
CONTRIBUTING == <<"CONTRIBUTING", ".md">>
CHANGELOG    == <<"CHANGELOG", ".md">>

\* const filesToSync = ['README.md', 'CONTRIBUTING.md', 'CHANGELOG.md']
filesToSync == <<README, CONTRIBUTING, CHANGELOG>>

\* The name of the generated overview taken for that of a specification
\* document.
OverviewMd_Clash == <<"connector", "-", "schema", ".md">>

IntroMd        == <<"intro", ".md">>
ContributingMd == <<"contributing", ".md">>
ChangelogMd    == <<"changelog", ".md">>
OverviewMd     == <<"overview", ".md">>
IndexMd        == <<"index", ".md">>

\* path.join(targetDir, file) with the file name dropped: one path for all.
InReference_Flat(name) == <<"reference", <<"index", ".md">>>>

\* The root documents written into a folder of their own.
InDocs_Guides(name) == <<"guides", name>>

\* A path of the destination tree DOCS_DIR: the folder ("." is DOCS_DIR
\* itself) and the name, or the path below the folder, of the file.
InReference(name) == <<"reference", name>>
InExamples(rel)   == <<"examples", rel>>
InDocs(name)      == <<".", name>>

\* The changelog branch with the target of the contributing branch.
TargetFile_Pasted(file) ==
  CASE file = README       -> IntroMd
    [] file = CONTRIBUTING -> ContributingMd
    [] file = CHANGELOG    -> ContributingMd

\* targetFile of a root document.
TargetFile(file) ==
  CASE file = README       -> IntroMd
    [] file = CONTRIBUTING -> ContributingMd
    [] file = CHANGELOG    -> ChangelogMd

\* ---------------------------------------------------------- root documents

SPEC_BLOB == "https://github.com/Open-Workflow/OpenWorkflow-Specification/blob/main/"

\* The fixed frontMatter of a root document.
RootFrontMatter(file) ==
  CASE file = README ->
         Obj([id |-> <<"intro">>, title |-> <<"Introduction">>,
              sidebar_label |-> <<"Introduction">>, sidebar_position |-> <<"1">>,
              description |-> <<"Introduction to OpenWorkflow specification">>])
    [] file = CONTRIBUTING ->
         Obj([id |-> <<"contributing">>, title |-> <<"Contributing">>,
              sidebar_label |-> <<"Contributing">>, sidebar_position |-> <<"99">>,
              description |-> <<"How to contribute to OpenWorkflow">>])
    [] file = CHANGELOG ->
         Obj([id |-> <<"changelog">>, title |-> <<"Changelog">>,
              sidebar_label |-> <<"Changelog">>, sidebar_position |-> <<"100">>,
              description |-> <<"Version history and changes">>])

\* The link substitutions of syncRootDocs with the one for CONTRIBUTING.md
\* treated like the one for specs: the folder is renamed, '.md' stays.
RootBody_KeepExtension(content) ==
  LET r1 == ReplaceLinks(content, <<"./", "specs/">>, <<".md">>, <<"./", "reference/">>, TRUE)
      r2 == ReplaceLinks(r1, <<"./", "examples/">>, <<>>, <<"./", "examples/">>, TRUE)
      r3 == ReplaceLinks(r2, <<"./">>, <<"CONTRIBUTING", ".md">>,
                         <<"./", "contributing", ".md">>, FALSE)
      r4 == ReplaceLinks(r3, <<"./">>, <<"SECURITY-REVIEW", ".md">>,
                         <<SPEC_BLOB, "SECURITY-REVIEW", ".md">>, FALSE)
  IN  ReplaceLinks(r4, <<"./">>, <<"FAQ", ".md">>, <<SPEC_BLOB, "FAQ", ".md">>, FALSE)

\* The five link substitutions of syncRootDocs, in order.
RootBody(content) ==
  LET r1 == ReplaceLinks(content, <<"./", "specs/">>, <<".md">>, <<"./", "reference/">>, TRUE)
      r2 == ReplaceLinks(r1, <<"./", "examples/">>, <<>>, <<"./", "examples/">>, TRUE)
      r3 == ReplaceLinks(r2, <<"./">>, <<"CONTRIBUTING", ".md">>, <<"./", "contributing">>, FALSE)
      r4 == ReplaceLinks(r3, <<"./">>, <<"SECURITY-REVIEW", ".md">>,
                         <<SPEC_BLOB, "SECURITY-REVIEW", ".md">>, FALSE)
  IN  ReplaceLinks(r4, <<"./">>, <<"FAQ", ".md">>, <<SPEC_BLOB, "FAQ", ".md">>, FALSE)

\* syncRootDocs with the source front-matter spread over the fixed block, as
\* syncSpecs does.
RootOutput_Merged(file, raw) ==
  Stringify(RootBody(Matter(raw).content),
            Spread(RootFrontMatter(file), Matter(raw).data))

\* What syncRootDocs writes for the root document `file` with text `raw`.
RootOutput(file, raw) ==
  Stringify(RootBody(Matter(raw).content), RootFrontMatter(file))

\* ------------------------------------------------- generated index documents

\* The index document syncExamples synthesizes.
ExamplesIndex ==
  Stringify(<<"# Examples", "\n">>,
            Obj([id |-> <<"examples">>, title |-> <<"Examples">>,
                 sidebar_label |-> <<"Examples">>, sidebar_position |-> <<"5">>]))

\* The overview document createReferenceIndex writes.
ReferenceIndex ==
  Stringify(<<"# Specification Overview", "\n",
              "](", "./", "connector", "-", "schema", ".md", ")", "\n",
              "](", "./", "workflow", "-", "schema", ".md", ")", "\n",
              "](", SPEC_BLOB, "LICENSE", ")", "\n">>,
            Obj([id |-> <<"overview">>, title |-> <<"Specification Overview">>,
                 sidebar_label |-> <<"Overview">>, sidebar_position |-> <<"1">>,
                 description |-> <<"Overview of the OpenWorkflow specification">>]))

\* ------------------------------------------------------------- file system

\* A folder's files: the names in S with the text f gives each.
Files(S, f) == [n \in S |-> f[n]]

NoFiles == [n \in {} |-> NoData]

\* fs.appendFile in place of fs.writeFile: an existing file keeps its text and
\* the new text follows it.
AppendFile(files, path, content) ==
  [p \in DOMAIN files \cup {path} |->
     IF p # path THEN files[p]
     ELSE IF path \in DOMAIN files
          THEN [data |-> files[p].data, body |-> files[p].body \o content.body]
          ELSE content]

\* fs.writeFile(path, content): the file is created or replaced.
WriteFile(files, path, content) ==
  [p \in DOMAIN files \cup {path} |-> IF p = path THEN content ELSE files[p]]

\* fs.copy with { overwrite: false }: a file that exists in the destination
\* keeps its text.
Copy_NoOverwrite(files, src) ==
  [p \in DOMAIN files \cup {InExamples(r) : r \in DOMAIN src} |->
     IF p \in DOMAIN files THEN files[p] ELSE src[p[2]]]

\* The examples folder emptied before the copy: the files of the destination
\* examples folder that have no source are deleted.
Copy_Mirror(files, src) ==
  [p \in {q \in DOMAIN files : q[1] # "examples"}
           \cup {InExamples(r) : r \in DOMAIN src} |->
     IF p[1] = "examples" THEN src[p[2]] ELSE files[p]]

\* fs.copy(sourceDir, docs/examples, { overwrite: true }): every file of the
\* source folder is written to the same relative path below docs/examples.
Copy(files, src) ==
  [p \in DOMAIN files \cup {InExamples(r) : r \in DOMAIN src} |->
     IF p[1] = "examples" /\ p[2] \in DOMAIN src THEN src[p[2]] ELSE files[p]]

\* -------------------------------------------------------- source resolution

GITHUB_ACTIONS_SPEC_DIR == ".spec-source"
specsPath               == ".spec-source/specs"
nestedSpecPath          == ".spec-source/OpenWorkflow-Specification"
LOCAL_SPEC_DIR          == "../OpenWorkflow-Specification"

\* The temporary clone placed where the sibling checkout is looked for.
TEMP_SPEC_DIR_Sibling == LOCAL_SPEC_DIR

TEMP_SPEC_DIR           == ".tmp-spec"

Probes == {GITHUB_ACTIONS_SPEC_DIR, specsPath, nestedSpecPath, LOCAL_SPEC_DIR, TEMP_SPEC_DIR}

\* getSpecDirectory with the sibling checkout looked for first.
getSpecDirectory_LocalFirst(pe) ==
  IF pe[LOCAL_SPEC_DIR] THEN LOCAL_SPEC_DIR
  ELSE IF pe[GITHUB_ACTIONS_SPEC_DIR] /\ pe[specsPath] THEN GITHUB_ACTIONS_SPEC_DIR
  ELSE IF pe[GITHUB_ACTIONS_SPEC_DIR] /\ pe[nestedSpecPath] THEN nestedSpecPath
  ELSE TEMP_SPEC_DIR

\* getSpecDirectory with the nested copy looked for before the specs folder.
getSpecDirectory_NestedFirst(pe) ==
  IF pe[GITHUB_ACTIONS_SPEC_DIR] /\ pe[nestedSpecPath] THEN nestedSpecPath
  ELSE IF pe[GITHUB_ACTIONS_SPEC_DIR] /\ pe[specsPath] THEN GITHUB_ACTIONS_SPEC_DIR
  ELSE IF pe[LOCAL_SPEC_DIR] THEN LOCAL_SPEC_DIR
  ELSE TEMP_SPEC_DIR

\* The directory getSpecDirectory returns when fs.pathExists answers pe;
\* TEMP_SPEC_DIR is returned after the git operation on it.
getSpecDirectory(pe) ==
  IF pe[GITHUB_ACTIONS_SPEC_DIR] /\ pe[specsPath] THEN GITHUB_ACTIONS_SPEC_DIR
  ELSE IF pe[GITHUB_ACTIONS_SPEC_DIR] /\ pe[nestedSpecPath] THEN nestedSpecPath
  ELSE IF pe[LOCAL_SPEC_DIR] THEN LOCAL_SPEC_DIR
  ELSE TEMP_SPEC_DIR

\* The git operation with its test inverted.
GitOperation_Inverted(pe) == IF pe[TEMP_SPEC_DIR] THEN "clone" ELSE "pull"

\* The git operation of getSpecDirectory: a pull in the clone of an earlier
\* run, a fresh clone otherwise.
GitOperation(pe) == IF pe[TEMP_SPEC_DIR] THEN "pull" ELSE "clone"

\* ------------------------------------------------------------------- state

VARIABLES
  pathExists,   \* what fs.pathExists answers for each probed source location
  source,       \* the tree of the directory source resolution returns
  order,        \* the operations in the order main awaits them
  docs,         \* the files of the destination tree DOCS_DIR: path -> text
  dirs,         \* the folders of DOCS_DIR that exist
  pc,           \* where the run is: Idle, an operation, Done or Failed
  specDir,      \* the directory getSpecDirectory returned ("" before)
  mdFiles,      \* the files the loop of syncSpecs has still to process
  rootIdx,      \* the index in filesToSync of the loop of syncRootDocs
  run,          \* how many runs have been started
  exitCode,     \* <<>> while the process runs, <<code>> once it has ended
  console,      \* the outcomes the run has reported
  error,        \* what made the run fail ("" when nothing did)
  gitOps,       \* the git operations of the run
  started,      \* the operations the run has entered, in order
  written,      \* the destination paths the run has written
  docsAtStart,  \* docs when the run started
  dirsAtStart   \* dirs when the run started

vars == <<pathExists, source, order, docs, dirs, pc, specDir, mdFiles, rootIdx, run,
          exitCode, console, error, gitOps, started, written, docsAtStart,
          dirsAtStart>>

\* ------------------------------------------------------------ orchestration

\* The operations main awaits, in the order of its statements.
Operations ==
  <<"getSpecDirectory", "syncSpecs", "syncExamples", "syncRootDocs", "createReferenceIndex">>

\* main with the calls of syncExamples and syncRootDocs in the other order.
NextOperation_Swapped(op) ==
  CASE op = "getSpecDirectory"     -> "syncSpecs"
    [] op = "syncSpecs"            -> "syncRootDocs"
    [] op = "syncRootDocs"         -> "syncExamples"
    [] op = "syncExamples"         -> "createReferenceIndex"
    [] op = "createReferenceIndex" -> "Done"

\* main with createReferenceIndex called before the other sync operations.
NextOperation_IndexFirst(op) ==
  CASE op = "getSpecDirectory"     -> "createReferenceIndex"
    [] op = "createReferenceIndex" -> "syncSpecs"
    [] op = "syncSpecs"            -> "syncExamples"
    [] op = "syncExamples"         -> "syncRootDocs"
    [] op = "syncRootDocs"         -> "Done"

\* What main does when the operation op has returned: the next operation of
\* its statement order, or "Done" after the last one.
NextOperation(op) ==
  LET i == CHOOSE k \in 1..Len(order) : order[k] = op
  IN  IF i = Len(order) THEN "Done" ELSE order[i + 1]

\* The catch block without process.exit(1): the process ends with code 0.
Catch_NoExit == [pc |-> "Failed", exitCode |-> <<0>>, console |-> "failed"]

\* The catch block of main: the failure is reported, process.exit(1).
Catch == [pc |-> "Failed", exitCode |-> <<1>>, console |-> "failed"]

\* The end of main's try block: success is reported, the process ends with
\* exit code 0.
Completed == [pc |-> "Done", exitCode |-> <<0>>, console |-> "completed"]

\* ------------------------------------------------------------------ inputs

ConnectorSchemaMd == <<"connector", "-", "schema", ".md">>
NotesTxt          == <<"notes", ".txt">>
CalculatorReadme  == <<"calculator/", "README", ".md">>
CalculatorJson    == <<"calculator/", "workflow", ".json">>

\* No front-matter; a stray ./docs/reference/ link and a table cell with "<".
DocPlain ==
  [data |-> NoData,
   body |-> <<"](", "./", "docs/reference/", "schema", ".md", ")", "|", "<", "10", "|">>]

\* Front-matter that sets title to an empty value and holds an unknown key.
DocEmptyTitle ==
  [data |-> Obj([title |-> <<>>, tags |-> <<"draft">>]),
   body |-> <<"](", "./", "schema", ".md", ")", "\n">>]

\* Front-matter that sets every recognised text field.
DocFull ==
  [data |-> Obj([id |-> <<"custom">>, title |-> <<"Custom">>,
                 sidebar_label |-> <<"Custom">>, description |-> <<"About">>]),
   body |-> <<"](", "../", "examples/", "calculator/", ")", "\n">>]

\* An example's README: no front-matter, a link back into the source specs.
DocExample ==
  [data |-> NoData,
   body |-> <<"](", "../", "../", "specs/", "connector", "-", "schema", ".md", ")", "\n">>]

DocJson == [data |-> NoData, body |-> <<"{}">>]

\* A root document with front-matter of its own and the links syncRootDocs
\* rewrites.
DocRoot ==
  [data |-> Obj([title |-> <<"OpenWorkflow">>, tags |-> <<"spec">>]),
   body |-> <<"](", "./", "specs/", "schema", ".md", ")",
              "](", "./", "CONTRIBUTING", ".md", ")",
              "](", "./", "FAQ", ".md", ")">>]

\* A file an earlier run, or somebody else, left in the destination tree.
DocStale == [data |-> Obj([id |-> <<"stale">>]), body |-> <<"stale", "\n">>]

Folder(files) == [exists |-> TRUE, files |-> files]
NoFolder      == [exists |-> FALSE, files |-> NoFiles]

\* The specs folder of the source: absent, without markdown, or with some.
SpecsFolders ==
  { NoFolder,
    Folder(Files({NotesTxt}, [n \in {NotesTxt} |-> DocPlain])),
    Folder(Files({ConnectorSchemaMd, NotesTxt},
                 [n \in {ConnectorSchemaMd, NotesTxt} |-> DocPlain])),
    Folder(Files({ConnectorSchemaMd, OverviewMd},
                 [n \in {ConnectorSchemaMd, OverviewMd} |->
                    IF n = OverviewMd THEN DocFull ELSE DocEmptyTitle])) }

\* The examples folder of the source: absent, without an index, or with one.
ExamplesFolders ==
  { NoFolder,
    Folder(Files({CalculatorReadme, CalculatorJson},
                 [n \in {CalculatorReadme, CalculatorJson} |->
                    IF n = CalculatorJson THEN DocJson ELSE DocExample])),
    Folder(Files({IndexMd, CalculatorReadme},
                 [n \in {IndexMd, CalculatorReadme} |->
                    IF n = IndexMd THEN DocFull ELSE DocExample])) }

\* The root documents of the source: any of the three may be absent.
RootFiles ==
  { Files(S, [n \in S |-> DocRoot]) : S \in SUBSET {README, CONTRIBUTING, CHANGELOG} }

Sources ==
  [specs : SpecsFolders, examples : ExamplesFolders, root : RootFiles]

\* The source locations: .spec-source/specs and the nested copy are inside
\* .spec-source.
Environments ==
  { pe \in [Probes -> BOOLEAN] :
      (pe[specsPath] \/ pe[nestedSpecPath]) => pe[GITHUB_ACTIONS_SPEC_DIR] }

StalePaths ==
  { InReference(ConnectorSchemaMd), InReference(OverviewMd),
    InReference(<<"removed", ".md">>), InExamples(IndexMd),
    InExamples(<<"removed", ".json">>), InDocs(ChangelogMd),
    <<"guides", <<"quickstart", ".md">>>> }

\* The destination tree before the first run: empty, or left by earlier runs.
Destinations ==
  { [docs |-> NoFiles, dirs |-> {}],
    [docs |-> Files(StalePaths, [p \in StalePaths |-> DocStale]),
     dirs |-> {"reference", "examples", "guides"}] }

Init ==
  /\ pathExists \in Environments
  /\ source \in Sources
  \* .spec-source is returned itself only when it holds a specs folder
  /\ getSpecDirectory(pathExists) = GITHUB_ACTIONS_SPEC_DIR => source.specs.exists
  /\ \E d \in Destinations :
       /\ docs = d.docs
       /\ dirs = d.dirs
       /\ docsAtStart = d.docs
       /\ dirsAtStart = d.dirs
  /\ pc = "Idle"
  /\ specDir = ""
  /\ mdFiles = {}
  /\ order = Operations
  /\ rootIdx = 1
  /\ run = 0
  /\ exitCode = <<>>
  /\ console = {}
  /\ error = ""
  /\ gitOps = <<>>
  /\ started = <<>>
  /\ written = {}

\* ----------------------------------------------------------------- actions

Running ==
  {"getSpecDirectory", "syncSpecs", "syncSpecs.for", "syncExamples",
   "syncRootDocs", "createReferenceIndex"}

\* main goes on to `op`: it calls the operation, or ends its try block.
Enter(op) ==
  IF op = "Done"
  THEN /\ pc' = Completed.pc
       /\ exitCode' = Completed.exitCode
       /\ console' = console \cup {Completed.console}
       /\ started' = started
  ELSE /\ pc' = op
       /\ started' = Append(started, op)
       /\ UNCHANGED <<exitCode, console>>

\* An operation whose last call never returns: main is never resumed.
Return_Never(op) == UNCHANGED <<pc, started, exitCode, console, error>>

\* The operation op returns to main.
Return(op) ==
  /\ Enter(NextOperation(op))
  /\ error' = error

\* An error that is reported and swallowed: main goes on with the next
\* operation.
Throw_Swallowed(cause) ==
  /\ Enter(NextOperation(Last(started)))
  /\ error' = cause

\* An automatic retry: the first error of a run is recorded and the operation
\* that threw is called again; the catch block runs for the second error.
Throw_Retried(cause) ==
  /\ error' = cause
  /\ IF error = ""
     THEN /\ pc' = Last(started)
          /\ started' = Append(started, Last(started))
          /\ UNCHANGED <<exitCode, console>>
     ELSE /\ pc' = Catch.pc
          /\ exitCode' = Catch.exitCode
          /\ console' = console \cup {Catch.console}
          /\ started' = started

\* The operation throws: main's catch block runs.
Throw(cause) ==
  /\ pc' = Catch.pc
  /\ exitCode' = Catch.exitCode
  /\ console' = console \cup {Catch.console}
  /\ error' = cause
  /\ started' = started

\* The operation stays where it is (the next iteration of its loop).
Stay == UNCHANGED <<pc, started, exitCode, console, error>>

\* The script is invoked: main() starts a run.  A further run is started
\* after a successful one, on the trees that run left.
Main ==
  /\ pc = "Idle" \/ pc = "Done"
  /\ run < MaxRuns
  /\ run' = run + 1
  /\ pc' = "getSpecDirectory"
  /\ started' = <<"getSpecDirectory">>
  /\ exitCode' = <<>>
  /\ console' = {}
  /\ error' = ""
  /\ gitOps' = <<>>
  /\ written' = {}
  /\ specDir' = ""
  /\ docsAtStart' = docs
  /\ dirsAtStart' = dirs
  /\ UNCHANGED <<pathExists, source, order, docs, dirs, mdFiles, rootIdx>>

\* getSpecDirectory: the first usable location, the git operation when
\* neither checkout is usable.
ResolveSource ==
  /\ pc = "getSpecDirectory"
  /\ LET dir == getSpecDirectory(pathExists)
     IN  IF dir # TEMP_SPEC_DIR
         THEN /\ specDir' = dir
              /\ Return("getSpecDirectory")
              /\ UNCHANGED <<pathExists, gitOps>>
         ELSE /\ gitOps' = Append(gitOps, GitOperation(pathExists))
              /\ \/ /\ pathExists' = [pathExists EXCEPT ![TEMP_SPEC_DIR] = TRUE]
                    /\ specDir' = dir
                    /\ Return("getSpecDirectory")
                 \/ /\ Throw("git")
                    /\ UNCHANGED <<pathExists, specDir>>
  /\ UNCHANGED <<source, order, docs, dirs, mdFiles, rootIdx, run, written,
                 docsAtStart, dirsAtStart>>

\* syncSpecs without its check: a missing specs folder is taken as empty.
SpecsFolderFound_Unchecked(src) == TRUE

\* The check of syncSpecs with its condition inverted.
SpecsFolderFound_Inverted(src) == ~src.specs.exists

\* The check of syncSpecs that the source holds a specs folder.
SpecsFolderFound(src) == src.specs.exists

\* The listing of the specs folder without its filter.
MarkdownFiles_Unfiltered(files) == DOMAIN files

\* files.filter(f => f.endsWith('.md'))
MarkdownFiles(files) == {f \in DOMAIN files : Len(f) > 0 /\ Last(f) = ".md"}

\* syncSpecs up to its loop: the reference folder is ensured, the specs
\* folder is looked for and listed.
SyncSpecs ==
  /\ pc = "syncSpecs"
  /\ dirs' = dirs \cup {"reference"}
  /\ IF ~SpecsFolderFound(source)
     THEN /\ Throw("specs")
          /\ mdFiles' = {}
     ELSE /\ mdFiles' = MarkdownFiles(source.specs.files)
          /\ IF mdFiles' = {}
             THEN Return("syncSpecs")
             ELSE /\ pc' = "syncSpecs.for"
                  /\ UNCHANGED <<started, exitCode, console, error>>
  /\ UNCHANGED <<pathExists, source, order, docs, specDir, rootIdx, run, gitOps,
                 written, docsAtStart, dirsAtStart>>

\* The loop of syncSpecs goes on from `file`: to the next file, or to the
\* end of syncSpecs after the last one.
SyncSpecsFileControl(file) ==
  /\ pc = "syncSpecs.for"
  /\ mdFiles' = mdFiles \ {file}
  /\ IF mdFiles' = {} THEN Return("syncSpecs") ELSE Stay
  /\ UNCHANGED <<pathExists, source, order, dirs, specDir, rootIdx, run, gitOps,
                 docsAtStart, dirsAtStart>>

\* One iteration of the loop of syncSpecs, in the order readdir lists.
SyncSpecsFile ==
  \E file \in mdFiles :
    /\ SyncSpecsFileControl(file)
    /\ docs' = WriteFile(docs, InReference(file),
                         SpecOutput(file, source.specs.files[file]))
    /\ written' = written \cup {InReference(file)}

\* syncExamples writing its index without looking for one.
IndexNeeded_Always(files) == TRUE

\* Whether syncExamples writes the synthesized index after the copy.
IndexNeeded(files) == InExamples(IndexMd) \notin DOMAIN files

\* syncExamples: the examples folder is ensured, the source examples are
\* copied (fs.copy rejects when the source folder is absent), the index is
\* added when there is none.
SyncExamplesControl ==
  /\ pc = "syncExamples"
  /\ dirs' = dirs \cup {"examples"}
  /\ IF ~source.examples.exists THEN Throw("examples") ELSE Return("syncExamples")
  /\ UNCHANGED <<pathExists, source, order, specDir, mdFiles, rootIdx, run, gitOps,
                 docsAtStart, dirsAtStart>>

SyncExamples ==
  /\ SyncExamplesControl
  /\ IF ~source.examples.exists
     THEN UNCHANGED <<docs, written>>
     ELSE LET copied == Copy(docs, source.examples.files)
              synth  == IndexNeeded(copied)
          IN  /\ docs' = IF synth
                         THEN WriteFile(copied, InExamples(IndexMd), ExamplesIndex)
                         ELSE copied
              /\ written' = written
                              \cup {InExamples(r) : r \in DOMAIN source.examples.files}
                              \cup (IF synth THEN {InExamples(IndexMd)} ELSE {})

\* The loop of syncRootDocs goes on: to the next of filesToSync, or to the
\* end of syncRootDocs after the last one.
SyncRootDocControl ==
  /\ pc = "syncRootDocs"
  /\ IF rootIdx = Len(filesToSync)
     THEN /\ rootIdx' = 1
          /\ Return("syncRootDocs")
     ELSE /\ rootIdx' = rootIdx + 1
          /\ Stay
  /\ UNCHANGED <<pathExists, source, order, dirs, specDir, mdFiles, run, gitOps,
                 docsAtStart, dirsAtStart>>

\* One iteration of the loop of syncRootDocs.
SyncRootDoc ==
  /\ SyncRootDocControl
  /\ LET file == filesToSync[rootIdx]
     IN  IF file \notin DOMAIN source.root
         THEN UNCHANGED <<docs, written>>
         ELSE /\ docs' = WriteFile(docs, InDocs(TargetFile(file)),
                                   RootOutput(file, source.root[file]))
              /\ written' = written \cup {InDocs(TargetFile(file))}

\* createReferenceIndex returns to main, which ends its try block.
CreateReferenceIndexControl ==
  /\ pc = "createReferenceIndex"
  /\ Return("createReferenceIndex")
  /\ UNCHANGED <<pathExists, source, order, dirs, specDir, mdFiles, rootIdx, run,
                 gitOps, docsAtStart, dirsAtStart>>

\* createReferenceIndex, and the end of main after it.
CreateReferenceIndex ==
  /\ CreateReferenceIndexControl
  /\ docs' = WriteFile(docs, InReference(OverviewMd), ReferenceIndex)
  /\ written' = written \cup {InReference(OverviewMd)}

\* A file-system or parser call of the running operation rejects (a
\* permission, a full disk, malformed YAML): the operation throws before its
\* next write.
IOError ==
  /\ pc \in Running
  /\ Throw("io")
  /\ UNCHANGED <<pathExists, source, order, docs, dirs, specDir, mdFiles, rootIdx,
                 run, gitOps, written, docsAtStart, dirsAtStart>>

Next ==
  \/ Main
  \/ ResolveSource
  \/ SyncSpecs
  \/ SyncSpecsFile
  \/ SyncExamples
  \/ SyncRootDoc
  \/ CreateReferenceIndex
  \/ IOError

Spec == Init /\ [][Next]_vars

\* ------------------------------------------------ runs whose calls return

\* The state but for the files of the destination tree.
control ==
  <<pathExists, source, order, dirs, pc, specDir, mdFiles, rootIdx, run, exitCode,
    console, error, gitOps, started, docsAtStart, dirsAtStart>>

\* The next step of the operation main awaits, whatever it writes.
Operation ==
  \/ ResolveSource
  \/ SyncSpecs
  \/ \E file \in mdFiles : SyncSpecsFileControl(file)
  \/ SyncExamplesControl
  \/ SyncRootDocControl
  \/ CreateReferenceIndexControl

\* Every awaited call returns: the operation that can take its next step
\* takes it.  A failure of a call is possible, never required, and so is a
\* further invocation of the script.
Fairness == WF_control(Operation)

SpecLive == Init /\ [][Next]_vars /\ Fairness

\* ------------------------------------------- one file of the syncSpecs loop

\* The lexemes link targets are made of.
LinkLexemes ==
  {"./", "../", "docs/reference/", "docs/examples/", "examples/", "schema", ".md"}

\* The lexemes table rows are made of.
TableLexemes == {"|", "<", "10", "\n"}

\* The texts of at most n lexemes of an alphabet.
Texts(alphabet, n) == UNION {[1..k -> alphabet] : k \in 0..n}

\* A markdown link with the given target: [..](target), from its "](" on.
Link(target) == <<"](">> \o target \o <<")">>

\* Bodies with one link, or with two short links on two lines.
LinkBodies ==
  {Link(t) : t \in Texts(LinkLexemes, MaxTargetLen)}
    \cup {Link(t[1]) \o <<"\n">> \o Link(t[2]) :
            t \in Texts(LinkLexemes, 2) \X Texts(LinkLexemes, 2)}

\* Bodies of table rows.
TableBodies == Texts(TableLexemes, MaxTableLen)

\* Front-matter blocks: every key absent, set to an empty value, or set.
FrontMatters == [Keys -> {NoField, <<>>, <<"v">>}]

\* The content of a specification file: a body under no front-matter, or
\* front-matter over a fixed body.
SpecTexts ==
  {[data |-> NoData, body |-> b] : b \in LinkBodies \cup TableBodies}
    \cup {[data |-> d, body |-> <<"text", "\n">>] : d \in FrontMatters}

\* The lexemes the stem of a file name is made of.
NameLexemes == {"connector", "schema", "-"}

\* File names the filter of syncSpecs lets through: words and hyphens, then
\* the extension '.md'.
SpecNames == {n \o <<".md">> : n \in Texts(NameLexemes, MaxNameLen - 1)}

\* Front-matter blocks in which title, sidebar_label and description are
\* absent, empty or set, over a fixed body.
TitleTexts ==
  {[data |-> d, body |-> <<"text", "\n">>] :
     d \in {m \in FrontMatters :
              \A k \in Keys \ {"title", "sidebar_label", "description"} : m[k] = NoField}}

\* The loop of syncSpecs is entered with one markdown file to process: the
\* sibling checkout was resolved, the reference folder ensured, the specs
\* folder listed.
InitFile ==
  /\ pathExists = [p \in Probes |-> p = LOCAL_SPEC_DIR]
  /\ \E in \in ({ConnectorSchemaMd, OverviewMd} \X SpecTexts) \cup (SpecNames \X TitleTexts) :
       LET file == in[1]
           raw  == in[2]
       IN
       /\ source = [specs    |-> Folder(Files({file}, [n \in {file} |-> raw])),
                    examples |-> Folder(NoFiles),
                    root     |-> NoFiles]
       /\ mdFiles = {file}
  /\ docs = NoFiles
  /\ dirs = {"reference"}
  /\ docsAtStart = NoFiles
  /\ dirsAtStart = {}
  /\ pc = "syncSpecs.for"
  /\ specDir = LOCAL_SPEC_DIR
  /\ order = Operations
  /\ rootIdx = 1
  /\ run = 1
  /\ exitCode = <<>>
  /\ console = {}
  /\ error = ""
  /\ gitOps = <<>>
  /\ started = <<"getSpecDirectory", "syncSpecs">>
  /\ written = {}

\* The transformation of one specification file, on every bounded content.
SpecFile == InitFile /\ [][SyncSpecsFile]_vars

\* ----------------------------------------- one pass of the syncRootDocs loop

\* The content of a root document: any front-matter block over the body of
\* DocRoot.
RootTexts == {[data |-> d, body |-> DocRoot.body] : d \in FrontMatters}

\* The lexemes the link targets of a root document are made of.
RootLinkLexemes ==
  {"./", "specs/", "examples/", "CONTRIBUTING", "SECURITY-REVIEW", "FAQ", ".md"}

\* A link target for each substitution of syncRootDocs, and one for none.
RootTargets ==
  {<<"./", "specs/", "FAQ", ".md">>, <<"./", "examples/", "FAQ", ".md">>,
   <<"./", "CONTRIBUTING", ".md">>, <<"./", "SECURITY-REVIEW", ".md">>,
   <<"./", "FAQ", ".md">>, <<"FAQ", ".md">>}

\* Root documents without front-matter whose body is one link, or two of the
\* targets above on two lines.
RootLinkTexts ==
  {[data |-> NoData, body |-> Link(t)] : t \in Texts(RootLinkLexemes, MaxTargetLen)}
    \cup {[data |-> NoData, body |-> Link(t[1]) \o <<"\n">> \o Link(t[2])] :
            t \in RootTargets \X RootTargets}

\* The root documents of a source that holds one of the three, or all three,
\* with the same content, or a README.md of links.
RootSources ==
  {Files(S, [n \in S |-> raw]) :
     S \in {{README}, {CONTRIBUTING}, {CHANGELOG}, {README, CONTRIBUTING, CHANGELOG}},
     raw \in RootTexts}
    \cup {Files({README}, [n \in {README} |-> raw]) : raw \in RootLinkTexts}

\* syncRootDocs is entered: the sibling checkout was resolved, syncSpecs found
\* an empty specs folder, syncExamples an empty examples folder and wrote its
\* index into an empty destination.
InitRootDoc ==
  /\ pathExists = [p \in Probes |-> p = LOCAL_SPEC_DIR]
  /\ \E root \in RootSources :
       source = [specs |-> Folder(NoFiles), examples |-> Folder(NoFiles), root |-> root]
  /\ docs = WriteFile(NoFiles, InExamples(IndexMd), ExamplesIndex)
  /\ written = {InExamples(IndexMd)}
  /\ dirs = {"reference", "examples"}
  /\ docsAtStart = NoFiles
  /\ dirsAtStart = {}
  /\ pc = "syncRootDocs"
  /\ specDir = LOCAL_SPEC_DIR
  /\ mdFiles = {}
  /\ order = Operations
  /\ rootIdx = 1
  /\ run = 1
  /\ exitCode = <<>>
  /\ console = {}
  /\ error = ""
  /\ gitOps = <<>>
  /\ started = <<"getSpecDirectory", "syncSpecs", "syncExamples", "syncRootDocs">>

\* The transformation of the root documents, on every bounded content.
SpecRootDoc == InitRootDoc /\ [][SyncRootDoc]_vars

\* ------------------------------------- the sync operations in another order

\* The orders main could await the operations in: source resolution first
\* (its result is the argument of the others), the four sync operations in
\* any permutation.
Orders ==
  {o \in [1..Len(Operations) -> {Operations[k] : k \in 1..Len(Operations)}] :
     /\ o[1] = Operations[1]
     /\ \A i, j \in 1..Len(Operations) : o[i] = o[j] => i = j}

\* A run on the sibling checkout, with the sync operations in any order.
InitAnyOrder ==
  /\ pathExists = [p \in Probes |-> p = LOCAL_SPEC_DIR]
  /\ source \in Sources
  /\ order \in Orders
  /\ \E d \in Destinations :
       /\ docs = d.docs
       /\ dirs = d.dirs
       /\ docsAtStart = d.docs
       /\ dirsAtStart = d.dirs
  /\ pc = "Idle"
  /\ specDir = ""
  /\ mdFiles = {}
  /\ rootIdx = 1
  /\ run = 0
  /\ exitCode = <<>>
  /\ console = {}
  /\ error = ""
  /\ gitOps = <<>>
  /\ started = <<>>
  /\ written = {}

SpecAnyOrder == InitAnyOrder /\ [][Next]_vars

\* ------------------------------------------------------------------ claims

\* The names of the files of folder `dir` of a destination tree.
NamesIn(files, dir) == {p[2] : p \in {q \in DOMAIN files : q[1] = dir}}

\* The names of the paths in set `paths` that lie in folder `dir`.
NamesOf(paths, dir) == {p[2] : p \in {q \in paths : q[1] = dir}}

\* The files of folder `dir` of a destination tree, with their text.
FilesIn(files, dir) ==
  LET ps == {q \in DOMAIN files : q[1] = dir} IN [p \in ps |-> files[p]]

\* Whether source resolution found the automation checkout usable.
UsableCheckout ==
  /\ pathExists[GITHUB_ACTIONS_SPEC_DIR]
  /\ pathExists[specsPath] \/ pathExists[nestedSpecPath]

\* C1: idempotence.  When a run has succeeded and main is run again on the
\* unchanged source and succeeds again, the destination tree after that
\* second run (its files with their text, and its folders) is the tree the
\* first run left.
C1_Idempotence ==
  (run >= 2 /\ pc = "Done") =>
    (docs = docsAtStart /\ dirs = dirsAtStart)

\* A second run has rewritten specification, example, root and index
\* documents, and the examples index the first run synthesized is kept.
C1_Witness ==
  /\ run = 2
  /\ pc = "Done"
  /\ InReference(ConnectorSchemaMd) \in written
  /\ InDocs(IntroMd) \in written
  /\ InExamples(CalculatorJson) \in written
  /\ IndexMd \notin DOMAIN source.examples.files
  /\ InExamples(IndexMd) \notin written
  /\ docs[InExamples(IndexMd)] = ExamplesIndex

\* C2 as stated: after a successful run the file names of the reference
\* folder are exactly the '.md' file names of the source specs folder.
C2_Original ==
  pc = "Done" =>
    NamesIn(docs, "reference") =
      {f \in DOMAIN source.specs.files : Last(f) = ".md"}

\* C2, amended: after a successful run every '.md' file of the source specs
\* folder has an output of the same name in the reference folder, and every
\* file of the reference folder is one of these, the generated overview.md,
\* or a file that was in the folder before the run.
C2_FilenamePreservation ==
  pc = "Done" =>
    LET md == {f \in DOMAIN source.specs.files : Last(f) = ".md"}
    IN  /\ md \subseteq NamesIn(docs, "reference")
        /\ OverviewMd \in NamesIn(docs, "reference")
        /\ NamesIn(docs, "reference") \subseteq
             md \cup {OverviewMd} \cup NamesIn(docsAtStart, "reference")
        /\ NamesOf(written, "reference") = md \cup {OverviewMd}

\* A successful run whose source specs folder holds a markdown file and a
\* file that is not markdown, into a reference folder that held a file with
\* no source.
C2_Witness ==
  /\ pc = "Done"
  /\ {ConnectorSchemaMd, NotesTxt} \subseteq DOMAIN source.specs.files
  /\ OverviewMd \notin DOMAIN source.specs.files
  /\ InReference(<<"removed", ".md">>) \in DOMAIN docs
  /\ InReference(ConnectorSchemaMd) \in written

\* Whether front-matter holds id, title and description, none empty.
CompleteFrontMatter(data) ==
  \A k \in {"id", "title", "description"} : data[k] # NoField /\ data[k] # <<>>

\* C3 as stated: after a successful run every markdown document the run
\* wrote carries front-matter with non-empty id, title and description.
C3_FrontMatterComplete ==
  pc = "Done" =>
    \A p \in written : Last(p[2]) = ".md" => CompleteFrontMatter(docs[p].data)

\* C4: when the resolved source has no specs folder, the run ends Failed with
\* exit code 1 once syncSpecs has looked for it, the files of the reference
\* folder are those of before the run, and no later operation is started.
C4_FatalAbort ==
  (specDir # "" /\ ~source.specs.exists /\ pc # "syncSpecs") =>
    /\ pc = "Failed"
    /\ exitCode = <<1>>
    /\ "failed" \in console
    /\ FilesIn(docs, "reference") = FilesIn(docsAtStart, "reference")
    /\ NamesOf(written, "reference") = {}
    /\ started = <<"getSpecDirectory", "syncSpecs">>

\* syncSpecs threw for the missing specs folder after ensuring the reference
\* folder, which did not exist before.
C4_Witness ==
  /\ error = "specs"
  /\ pc = "Failed"
  /\ "reference" \in dirs \ dirsAtStart
  /\ specDir = nestedSpecPath

\* The destination name of each root document, as the claim gives it.
C5_Image(file) ==
  CASE file = README       -> <<"intro", ".md">>
    [] file = CONTRIBUTING -> <<"contributing", ".md">>
    [] file = CHANGELOG    -> <<"changelog", ".md">>

\* C5: graceful skip.  Whatever subset of the three root documents the source
\* holds, a run never fails in syncRootDocs for an absent one; when the run
\* is done the root documents it produced are exactly the images of the
\* present ones, each with the text syncRootDocs gives it, and in a
\* destination that held no root document before these are the only ones.
C5_GracefulSkip ==
  /\ (pc = "Failed" /\ started # <<>> /\ Last(started) = "syncRootDocs") => error = "io"
  /\ pc = "Done" =>
       LET images == {C5_Image(f) : f \in DOMAIN source.root}
       IN  /\ NamesOf(written, ".") = images
           /\ \A f \in DOMAIN source.root :
                docs[InDocs(C5_Image(f))].data["id"] = <<C5_Image(f)[1]>>
           /\ NamesIn(docsAtStart, ".") = {} => NamesIn(docs, ".") = images

\* A successful run on a source with README.md and CONTRIBUTING.md and no
\* CHANGELOG.md: two of the three root documents exist.
C5_Witness ==
  /\ pc = "Done"
  /\ DOMAIN source.root = {README, CONTRIBUTING}
  /\ NamesIn(docs, ".") = {IntroMd, ContributingMd}

\* C6: exit status.  The process ends with exit code 0 exactly in Done, after
\* source resolution and the four sync operations have all been entered and
\* none has raised an error, and with exit code 1 exactly in Failed; a run in
\* which an error was raised never ends with code 0, and no run reports both
\* outcomes.
C6_ExitStatus ==
  /\ exitCode = <<0>> <=> pc = "Done"
  /\ exitCode = <<1>> <=> pc = "Failed"
  /\ exitCode = <<0>> => (started = Operations /\ error = "")
  /\ error # "" => exitCode = <<1>>
  /\ "completed" \in console <=> exitCode = <<0>>
  /\ "failed" \in console <=> exitCode = <<1>>
  /\ ~({"completed", "failed"} \subseteq console)

\* An error raised in the last operation, after every earlier one returned:
\* the run fails, with the destination written.
C6_Witness ==
  /\ error = "io"
  /\ started = Operations
  /\ exitCode = <<1>>
  /\ InDocs(IntroMd) \in written

\* C7 as stated: apart from I/O errors of single calls, every resolved source
\* tree that holds a specs folder lets the run through, whatever else it
\* lacks.
C7_Original ==
  (specDir # "" /\ source.specs.exists /\ error # "io") => pc # "Failed"

\* C7, amended: three conditions of the source make a run fail: it cannot be
\* resolved (the git operation fails), the resolved tree has no specs folder,
\* or it has no examples folder (fs.copy rejects); any other failure is the
\* error of a single file-system or parser call.  A resolved tree with both
\* folders lets the run through whichever root documents are absent.
C7_FailureCauses ==
  /\ pc = "Failed" <=> error # ""
  /\ error \in {"", "git", "specs", "examples", "io"}
  /\ error = "git" => (specDir = "" /\ started = <<"getSpecDirectory">>)
  /\ error = "specs" => (~source.specs.exists /\ Last(started) = "syncSpecs")
  /\ error = "examples" =>
       (~source.examples.exists /\ source.specs.exists
          /\ Last(started) = "syncExamples")
  /\ (~source.examples.exists /\ specDir # "") => pc # "Done"

\* A run on a source with a specs folder and without an examples folder:
\* syncSpecs wrote its files, syncExamples threw.
C7_Witness ==
  /\ pc = "Failed"
  /\ error = "examples"
  /\ source.specs.exists
  /\ InReference(ConnectorSchemaMd) \in written
  /\ DOMAIN source.root = {README, CONTRIBUTING, CHANGELOG}

\* Whether s is an initial segment of t.
IsPrefix(s, t) == Len(s) <= Len(t) /\ s = SubSeq(t, 1, Len(s))

\* The operation a position of the run belongs to.
OperationOf(at) == IF at = "syncSpecs.for" THEN "syncSpecs" ELSE at

C8_Step ==
  \* the operations entered so far are an initial segment of the fixed order
  /\ IsPrefix(started', Operations)
  \* the run is in the operation entered last: the earlier ones have returned
  /\ pc' \in Running => OperationOf(pc') = Last(started')
  \* an operation is entered from the one before it, or from main's start
  /\ started' # started =>
       \/ started' = <<"getSpecDirectory">>
       \/ (pc \in Running /\ OperationOf(pc) = Last(started)
             /\ started' = Append(started, pc'))
  \* the destination is written by the running operation only
  /\ (docs' # docs \/ dirs' # dirs) => pc \in Running \ {"getSpecDirectory"}
  \* after a failure nothing is entered and nothing is written
  /\ pc' = "Failed" => (docs' = docs /\ started' = started)
  /\ pc = "Failed" => UNCHANGED vars

\* C8: ordering and abort.  In every run the operations are entered in the
\* order resolve source, sync specifications, sync examples, sync root
\* documents, create reference index, each from the one before it; once an
\* operation has failed, no operation is entered and nothing is written.
C8_OrderAndAbort == [][C8_Step]_vars

\* syncExamples failed after syncSpecs had written: the two later operations
\* were never entered.
C8_Witness ==
  /\ pc = "Failed"
  /\ started = <<"getSpecDirectory", "syncSpecs", "syncExamples">>
  /\ InReference(ConnectorSchemaMd) \in written
  /\ DOMAIN source.root # {}
  /\ NamesOf(written, ".") = {}

\* C9 as stated: whenever the automation checkout exists the directory
\* returned is that location or the nested copy; whenever it does not exist
\* and the sibling checkout exists, the sibling checkout is returned.
C9_Original ==
  specDir # "" =>
    /\ pathExists[GITHUB_ACTIONS_SPEC_DIR] =>
         specDir \in {GITHUB_ACTIONS_SPEC_DIR, nestedSpecPath}
    /\ (~pathExists[GITHUB_ACTIONS_SPEC_DIR] /\ pathExists[LOCAL_SPEC_DIR]) =>
         specDir = LOCAL_SPEC_DIR

\* C9, amended: first match wins over the ordered candidates, where the
\* automation checkout matches only when it holds a specs folder or the
\* nested copy.  At most one directory is returned per run, and exactly one
\* when resolution succeeds; when the automation checkout matches, the
\* directory returned is that location (it holds specs) or the nested copy;
\* when it does not match (it is absent, or holds neither) and the sibling
\* checkout exists, the sibling checkout is returned; otherwise the temporary
\* clone is returned, after a git operation.
C9_FirstMatchWins ==
  /\ specDir \in {"", GITHUB_ACTIONS_SPEC_DIR, nestedSpecPath, LOCAL_SPEC_DIR, TEMP_SPEC_DIR}
  /\ specDir = "" <=>
       (pc \in {"Idle", "getSpecDirectory"} \/ (pc = "Failed" /\ Len(started) = 1))
  /\ specDir # "" =>
       /\ UsableCheckout =>
            specDir = (IF pathExists[specsPath] THEN GITHUB_ACTIONS_SPEC_DIR
                       ELSE nestedSpecPath)
       /\ (~UsableCheckout /\ pathExists[LOCAL_SPEC_DIR]) => specDir = LOCAL_SPEC_DIR
       /\ (~UsableCheckout /\ ~pathExists[LOCAL_SPEC_DIR]) =>
            (specDir = TEMP_SPEC_DIR /\ Len(gitOps) = 1)

\* The automation checkout exists and holds neither a specs folder nor the
\* nested copy: the sibling checkout is returned.
C9_Witness ==
  /\ specDir = LOCAL_SPEC_DIR
  /\ pathExists[GITHUB_ACTIONS_SPEC_DIR]
  /\ pathExists[TEMP_SPEC_DIR]

\* C10: when neither checkout is usable and the git operation (the clone, or
\* the pull in the clone of an earlier run) fails, the run ends Failed with
\* exit code 1, no sync operation is entered, and the destination tree is
\* the tree of before the run: no file and no folder is created or changed.
C10_UnresolvableSource ==
  error = "git" =>
    /\ ~UsableCheckout /\ ~pathExists[LOCAL_SPEC_DIR]
    /\ pc = "Failed"
    /\ exitCode = <<1>>
    /\ started = <<"getSpecDirectory">>
    /\ specDir = ""
    /\ written = {}
    /\ docs = docsAtStart
    /\ dirs = dirsAtStart

\* The pull in an existing temporary clone failed, with files of earlier runs
\* in the destination.
C10_Witness ==
  /\ error = "git"
  /\ gitOps = <<"pull">>
  /\ pc = "Failed"
  /\ InReference(ConnectorSchemaMd) \in DOMAIN docs

RECURSIVE LinkTargets(_)
\* The targets of the links of a text, in order: what stands between each
\* "](" and the ")" that follows it.
LinkTargets(s) ==
  LET open  == IndexFrom(s, "](", 1)
      close == IF open = 0 THEN 0 ELSE IndexFrom(s, ")", open + 1)
  IN  IF open = 0 \/ close = 0 THEN <<>>
      ELSE <<SubSeq(s, open + 1, close - 1)>>
             \o LinkTargets(SubSeq(s, close + 1, Len(s)))

\* Whether a link target is the lexemes of `prefix` and something after them.
StartsWith(t, prefix) == Len(t) > Len(prefix) /\ MatchesAt(t, prefix, 1)

\* The target the claim gives the link with target t in the output: the two
\* erroneous shapes are normalised, every other target is kept.
C11_Target(t) ==
  IF StartsWith(t, <<"./", "docs/reference/">>)
  THEN <<"./">> \o SubSeq(t, 3, Len(t))
  ELSE IF StartsWith(t, <<"./", "docs/examples/">>)
  THEN <<"../", "examples/">> \o SubSeq(t, 3, Len(t))
  ELSE t

\* C11 as stated: the links of a synced specification document are those of
\* its source, in order, with './docs/reference/X' normalised to './X',
\* './docs/examples/P' normalised to '../examples/P', and every other target
\* ('./X.md' and '../examples/P' among them) unchanged.
C11_LinkRewriting ==
  \A f \in DOMAIN source.specs.files :
    InReference(f) \in written =>
      LET links == LinkTargets(source.specs.files[f].body)
      IN  LinkTargets(docs[InReference(f)].body) =
            [k \in 1..Len(links) |-> C11_Target(links[k])]

\* The lexemes of a path that name folders.
FolderLexemes ==
  {"./", "examples/", "reference/", "specs/", "calculator/", "docs/reference/",
   "docs/examples/"}

\* The folders a folder lexeme goes down into.
FolderSegments(x) ==
  CASE x = "./"              -> <<>>
    [] x = "examples/"       -> <<"examples">>
    [] x = "reference/"      -> <<"reference">>
    [] x = "specs/"          -> <<"specs">>
    [] x = "calculator/"     -> <<"calculator">>
    [] x = "docs/reference/" -> <<"docs", "reference">>
    [] x = "docs/examples/"  -> <<"docs", "examples">>

RECURSIVE Walk(_, _)
\* The place a relative path leads to from folder `dir` of the destination
\* tree (the folders below DOCS_DIR, outermost first): the folder reached and
\* the file name that is left.  A path that climbs above DOCS_DIR leads to the
\* folder <<"..">>, which holds no destination file.
Walk(dir, rel) ==
  IF Len(rel) = 0 THEN [dir |-> dir, name |-> <<>>]
  ELSE IF rel[1] = "../"
  THEN IF Len(dir) = 0 \/ dir = <<"..">> THEN [dir |-> <<"..">>, name |-> <<>>]
       ELSE Walk(SubSeq(dir, 1, Len(dir) - 1), Tail(rel))
  ELSE IF rel[1] \in FolderLexemes
  THEN IF dir = <<"..">> THEN [dir |-> dir, name |-> <<>>]
       ELSE Walk(dir \o FolderSegments(rel[1]), Tail(rel))
  ELSE [dir |-> dir, name |-> rel]

\* The folder and the file name of a destination path.
Place(p) == Walk(IF p[1] = "." THEN <<>> ELSE <<p[1]>>, p[2])

\* Whether the relative link `target` of the document at destination path p
\* leads to something of the destination tree `files`: a file, the page of a
\* markdown file named without its extension, or a folder that holds a file.
Resolves(files, p, target) ==
  LET to == Walk(Place(p).dir, target)
  IN  \E q \in DOMAIN files :
        LET at == Place(q)
        IN  IF to.name = <<>>
            THEN IsPrefix(to.dir, at.dir)
            ELSE at.dir = to.dir
                   /\ (at.name = to.name \/ at.name = to.name \o <<".md">>)

\* The relative links of a text: those whose target starts with ./ or ../
RelativeLinks(s) ==
  LET links == LinkTargets(s)
  IN  {links[k] : k \in {i \in 1..Len(links) :
                           Len(links[i]) > 0 /\ links[i][1] \in {"./", "../"}}}

\* C12 as stated: after a successful run, every relative link of every
\* markdown document the run wrote leads, from the folder of that document,
\* to a file or folder that exists in the destination tree.
C12_LinksResolve ==
  pc = "Done" =>
    \A p \in written :
      Last(p[2]) = ".md" =>
        \A t \in RelativeLinks(docs[p].body) : Resolves(docs, p, t)

\* Whether lexeme i of text s stands in a table cell: between two "|" of its
\* line.
InCell(s, i) ==
  /\ \E a \in 1..(i - 1) : s[a] = "|" /\ \A j \in a..i : s[j] # "\n"
  /\ \E b \in (i + 1)..Len(s) : s[b] = "|" /\ \A j \in i..b : s[j] # "\n"

\* The text the claim gives for s: every "<" of every table cell is "&lt;",
\* every other lexeme is kept.
C13_Escaped(s) ==
  [i \in 1..Len(s) |-> IF s[i] = "<" /\ InCell(s, i) THEN "&lt;" ELSE s[i]]

\* C13 as stated: the body of a synced specification document (one without
\* links) is the source body with every "<" of every table cell replaced by
\* "&lt;" and all other text, in and outside table cells, unchanged.
C13_TableEscaping ==
  \A f \in DOMAIN source.specs.files :
    InReference(f) \in written =>
      LET body == source.specs.files[f].body
      IN  LinkTargets(body) = <<>> =>
            docs[InReference(f)].body = Newline(C13_Escaped(body))

\* The default the claim gives a field the source does not provide.
C14_Default(file, k) ==
  CASE k = "id"            -> SubSeq(file, 1, Len(file) - 1)
    [] k = "title"         -> BaseTitle(file)
    [] k = "sidebar_label" -> BaseTitle(file)
    [] k = "description"   -> BaseTitle(file) \o <<" specification">>
    [] OTHER               -> NoField

\* C14: front-matter merge precedence.  In the document syncSpecs writes for
\* a source file, every field the source front-matter holds (id, title,
\* sidebar_label, description, sidebar_position or an unrecognised key; also
\* one set to an empty value) has the source's value; each of id, title,
\* sidebar_label and description the source does not hold has its derived
\* default, and no other field is added.
C14_MergePrecedence ==
  \A f \in DOMAIN source.specs.files :
    InReference(f) \in written =>
      LET src == source.specs.files[f].data
          out == docs[InReference(f)].data
      IN  \A k \in Keys :
            out[k] = IF src[k] # NoField THEN src[k] ELSE C14_Default(f, k)

\* A document was written whose source sets an id of its own, an empty title
\* and an unrecognised key, and gives no description.
C14_Witness ==
  \E f \in DOMAIN source.specs.files :
    /\ InReference(f) \in written
    /\ source.specs.files[f].data["id"] = <<"v">>
    /\ source.specs.files[f].data["title"] = <<>>
    /\ source.specs.files[f].data["tags"] = <<"v">>
    /\ source.specs.files[f].data["description"] = NoField
    /\ docs[InReference(f)].data["description"] # NoField

\* syncExamples has returned in the current run: main went on to syncRootDocs.
ExamplesSynced == Len(started) >= 4

\* C15 as stated: after syncExamples succeeds, every file of the source
\* examples folder is in the destination examples folder at the same path
\* with the same content, and the folder holds nothing else but index.md.
C15_Original ==
  ExamplesSynced =>
    /\ \A r \in DOMAIN source.examples.files :
         /\ InExamples(r) \in DOMAIN docs
         /\ docs[InExamples(r)] = source.examples.files[r]
    /\ NamesIn(docs, "examples") = DOMAIN source.examples.files \cup {IndexMd}

\* C15, amended: after syncExamples succeeds, every file of the source
\* examples folder is in the destination examples folder at the same path
\* with the same content, and index.md exists; every other file of the
\* destination examples folder was there before the run and is unchanged.
C15_ExamplesMirror ==
  ExamplesSynced =>
    /\ \A r \in DOMAIN source.examples.files :
         /\ InExamples(r) \in DOMAIN docs
         /\ docs[InExamples(r)] = source.examples.files[r]
    /\ InExamples(IndexMd) \in DOMAIN docs
    /\ \A p \in DOMAIN docs :
         (p[1] = "examples" /\ p[2] \notin DOMAIN source.examples.files \cup {IndexMd}) =>
           (p \in DOMAIN docsAtStart /\ docs[p] = docsAtStart[p])

\* syncExamples returned in a first run on a destination that held an index
\* and a file with no source: the index of the source replaced the old one,
\* the file with no source is still there.
C15_Witness ==
  /\ ExamplesSynced
  /\ run = 1
  /\ InExamples(<<"removed", ".json">>) \in DOMAIN docs
  /\ IndexMd \in DOMAIN source.examples.files
  /\ InExamples(IndexMd) \in DOMAIN docsAtStart
  /\ docs[InExamples(IndexMd)] # docsAtStart[InExamples(IndexMd)]

\* The identity the claim gives each root document: intro/1, contributing/99,
\* changelog/100, with the title, label and description of its destination.
C16_Identity(file) ==
  CASE file = README ->
         [id |-> <<"intro">>, title |-> <<"Introduction">>,
          sidebar_label |-> <<"Introduction">>, sidebar_position |-> <<"1">>,
          description |-> <<"Introduction to OpenWorkflow specification">>]
    [] file = CONTRIBUTING ->
         [id |-> <<"contributing">>, title |-> <<"Contributing">>,
          sidebar_label |-> <<"Contributing">>, sidebar_position |-> <<"99">>,
          description |-> <<"How to contribute to OpenWorkflow">>]
    [] file = CHANGELOG ->
         [id |-> <<"changelog">>, title |-> <<"Changelog">>,
          sidebar_label |-> <<"Changelog">>, sidebar_position |-> <<"100">>,
          description |-> <<"Version history and changes">>]

\* C16: the identity of root documents does not depend on the source.  Every
\* root document syncRootDocs has written carries the id, title,
\* sidebar_label, sidebar_position and description of its destination,
\* whatever front-matter the source document has, and no other key: nothing
\* of the source front-matter is in the output.
C16_RootIdentity ==
  \A f \in DOMAIN source.root :
    InDocs(C5_Image(f)) \in written =>
      LET out == docs[InDocs(C5_Image(f))].data
      IN  \A k \in Keys :
            out[k] = IF k \in DOMAIN C16_Identity(f) THEN C16_Identity(f)[k]
                     ELSE NoField

\* The three root documents were written from sources that set id, title,
\* sidebar_position and an unrecognised key themselves.
C16_Witness ==
  /\ {InDocs(IntroMd), InDocs(ContributingMd), InDocs(ChangelogMd)} \subseteq written
  /\ \A f \in DOMAIN source.root :
       /\ source.root[f].data["id"] = <<"v">>
       /\ source.root[f].data["title"] = <<>>
       /\ source.root[f].data["sidebar_position"] = <<"v">>
       /\ source.root[f].data["tags"] = <<"v">>

\* C17: after every successful run reference/overview.md is the fixed
\* template under its fixed front-matter (id overview, sidebar_position 1),
\* whatever the file held before the run and whatever the source holds, a
\* specs/overview.md of its own included.
C17_FixedReferenceIndex ==
  pc = "Done" =>
    /\ InReference(<<"overview", ".md">>) \in DOMAIN docs
    /\ docs[InReference(<<"overview", ".md">>)] = ReferenceIndex
    /\ docs[InReference(<<"overview", ".md">>)].data["id"] = <<"overview">>
    /\ docs[InReference(<<"overview", ".md">>)].data["sidebar_position"] = <<"1">>

\* A first run succeeded on a source whose specs folder holds overview.md,
\* into a destination that held another reference/overview.md.
C17_Witness ==
  /\ pc = "Done"
  /\ run = 1
  /\ <<"overview", ".md">> \in DOMAIN source.specs.files
  /\ InReference(<<"overview", ".md">>) \in DOMAIN docsAtStart
  /\ docsAtStart[InReference(<<"overview", ".md">>)] = DocStale

\* The destination tree syncSpecs leaves when it succeeds on tree `files`.
SyncSpecsEffect(src, files) ==
  LET md == {f \in DOMAIN src.specs.files : Last(f) = ".md"}
  IN  [p \in DOMAIN files \cup {InReference(f) : f \in md} |->
         IF p[1] = "reference" /\ p[2] \in md
         THEN SpecOutput(p[2], src.specs.files[p[2]])
         ELSE files[p]]

\* The destination tree syncExamples leaves when it succeeds on `files`.
SyncExamplesEffect(src, files) ==
  LET copied == Copy(files, src.examples.files)
  IN  IF InExamples(IndexMd) \in DOMAIN copied THEN copied
      ELSE WriteFile(copied, InExamples(IndexMd), ExamplesIndex)

RECURSIVE SyncRootDocsEffect(_, _, _)
\* The destination tree syncRootDocs leaves on `files`, from file i of
\* filesToSync on.
SyncRootDocsEffect(src, files, i) ==
  IF i > Len(filesToSync) THEN files
  ELSE LET file == filesToSync[i]
       IN  SyncRootDocsEffect(src,
             IF file \in DOMAIN src.root
             THEN WriteFile(files, InDocs(TargetFile(file)),
                            RootOutput(file, src.root[file]))
             ELSE files,
             i + 1)

\* The destination tree an operation leaves when it succeeds on `files`.
Effect(op, src, files) ==
  CASE op = "getSpecDirectory"     -> files
    [] op = "syncSpecs"            -> SyncSpecsEffect(src, files)
    [] op = "syncExamples"         -> SyncExamplesEffect(src, files)
    [] op = "syncRootDocs"         -> SyncRootDocsEffect(src, files, 1)
    [] op = "createReferenceIndex" ->
         WriteFile(files, InReference(OverviewMd), ReferenceIndex)

RECURSIVE Effects(_, _, _)
\* The destination tree the operations `ops` leave, one after the other.
Effects(ops, src, files) ==
  IF Len(ops) = 0 THEN files
  ELSE Effects(Tail(ops), src, Effect(ops[1], src, files))

Phase(at) ==
  CASE at = "Idle"             -> "Idle"
    [] at = "getSpecDirectory" -> "Resolving Source"
    [] at = "Done"             -> "Done"
    [] at = "Failed"           -> "Failed"
    [] OTHER                   -> "Syncing"

\* The moves of the state machine, and the steps inside Syncing.
PhaseMoves ==
  { <<"Idle", "Resolving Source">>, <<"Resolving Source", "Syncing">>,
    <<"Syncing", "Syncing">>, <<"Syncing", "Done">>,
    <<"Resolving Source", "Failed">>, <<"Syncing", "Failed">> }

C19_Step ==
  \* a run starts at source resolution, when the script is invoked (for the
  \* first time, or again after a run that is done)
  /\ run' # run =>
       /\ pc \in {"Idle", "Done"}
       /\ Phase(pc') = "Resolving Source"
       /\ started' = <<"getSpecDirectory">>
  \* inside a run the phase only moves forward along the state machine
  /\ run' = run =>
       /\ Phase(pc') = Phase(pc) \/ <<Phase(pc), Phase(pc')>> \in PhaseMoves
       /\ Phase(pc') = "Resolving Source" => pc = "Idle"
       /\ IsPrefix(started, started')
  \* Done and Failed are terminal: the run takes no further step
  /\ (pc \in {"Done", "Failed"} /\ run' = run) => UNCHANGED vars
  \* Done and Failed exclude each other
  /\ ~({"completed", "failed"} \subseteq console')
  /\ pc' = "Done" => exitCode' = <<0>>
  /\ pc' = "Failed" => exitCode' = <<1>>
  \* no operation is entered more than once in a run
  /\ \A i, j \in 1..Len(started') : started'[i] = started'[j] => i = j

\* C19: run state machine.  The phase of a run moves Idle -> Resolving
\* Source -> Syncing -> Done, or to Failed from Resolving Source or Syncing,
\* and never back; Done and Failed are terminal and exclude each other; no
\* operation (source resolution or a sync operation) is entered twice in a
\* run.
C19_RunStateMachine == [][C19_Step]_vars

\* A second run failed in its last operation after entering each operation
\* once.
C19_Witness ==
  /\ pc = "Failed"
  /\ run = 2
  /\ started = Operations
  /\ exitCode = <<1>>

\* The destination paths an operation can write on source tree src.
WritePaths(op, src) ==
  CASE op = "getSpecDirectory"     -> {}
    [] op = "syncSpecs"            ->
         {InReference(f) : f \in MarkdownFiles(src.specs.files)}
    [] op = "syncExamples"         ->
         {InExamples(r) : r \in DOMAIN src.examples.files \cup {IndexMd}}
    [] op = "syncRootDocs"         ->
         {InDocs(TargetFile(f)) : f \in DOMAIN src.root}
    [] op = "createReferenceIndex" -> {InReference(OverviewMd)}

\* C20: partial update.  When a run has failed inside operation k, the
\* destination tree is the tree the operations before k left, except for the
\* files the completed part of k has written, which have the text k gives
\* them; a path only later operations would write is as before the run
\* (absent, or with its old text); no file of before the run is missing.
C20_PartialUpdate ==
  pc = "Failed" =>
    LET k      == Last(started)
        before == SubSeq(started, 1, Len(started) - 1)
        base   == Effects(before, source, docsAtStart)
        full   == Effect(k, source, base)
        later  == {Operations[i] : i \in 1..Len(Operations)}
                    \ {started[i] : i \in 1..Len(started)}
        reached == UNION {WritePaths(started[i], source) : i \in 1..Len(started)}
    IN  /\ DOMAIN docsAtStart \subseteq DOMAIN docs
        /\ DOMAIN base \subseteq DOMAIN docs
        /\ \A p \in DOMAIN docs :
             \/ p \in DOMAIN base /\ docs[p] = base[p]
             \/ p \in WritePaths(k, source) /\ docs[p] = full[p]
        /\ \A op \in later :
             \A p \in WritePaths(op, source) \ reached :
               /\ p \notin written
               /\ p \in DOMAIN docs <=> p \in DOMAIN docsAtStart
               /\ p \in DOMAIN docs => docs[p] = docsAtStart[p]

\* A run failed in syncRootDocs after writing intro.md and before writing
\* contributing.md; syncSpecs had written its document, and the old
\* reference/overview.md, which createReferenceIndex never reached, is still
\* there.
C20_Witness ==
  /\ pc = "Failed"
  /\ Last(started) = "syncRootDocs"
  /\ InDocs(IntroMd) \in written
  /\ CONTRIBUTING \in DOMAIN source.root
  /\ InDocs(ContributingMd) \notin written
  /\ InReference(ConnectorSchemaMd) \in written
  /\ InReference(<<"overview", ".md">>) \in DOMAIN docs
  /\ docs[InReference(<<"overview", ".md">>)] = DocStale
  /\ InDocs(ChangelogMd) \in DOMAIN docs

\* The two checkouts the script is given, with what is looked for in them.
Checkouts ==
  {".spec-source", ".spec-source/specs",
   ".spec-source/OpenWorkflow-Specification", "../OpenWorkflow-Specification"}

C21_Step ==
  \* no step changes the tree of the resolved source directory
  /\ source' = source
  \* the automation checkout and the sibling checkout are never touched
  /\ \A loc \in Checkouts : pathExists'[loc] = pathExists[loc]
  \* the temporary clone appears in source resolution only, by git clone
  /\ pathExists' # pathExists =>
       /\ pc = "getSpecDirectory"
       /\ gitOps' = Append(gitOps, "clone")
       /\ pathExists'[".tmp-spec"]
  \* git runs in source resolution only
  /\ (gitOps' # gitOps /\ gitOps' # <<>>) =>
       (pc = "getSpecDirectory" /\ ~pathExists["../OpenWorkflow-Specification"])
  \* the sync operations write below DOCS_DIR only
  /\ pc \in Running \ {"getSpecDirectory"} =>
       (pathExists' = pathExists /\ gitOps' = gitOps)

\* C21: the source tree is read-only input.  No sync operation changes the
\* resolved source directory; outside the destination tree only source
\* resolution writes, by git clone or pull in the temporary clone location;
\* the automation checkout and the sibling checkout are never modified.
C21_SourceReadOnly == [][C21_Step]_vars

\* A run cloned the source into the temporary location and its sync
\* operations wrote specification, example and root documents.
C21_Witness ==
  /\ pc = "Done"
  /\ gitOps = <<"clone">>
  /\ specDir = ".tmp-spec"
  /\ InReference(ConnectorSchemaMd) \in written
  /\ InExamples(CalculatorJson) \in written
  /\ InDocs(IntroMd) \in written

\* The target the claim gives the link with target t of a root document.
C22_Target(t) ==
  IF Len(t) >= 4 /\ SubSeq(t, 1, 2) = <<"./", "specs/">> /\ Last(t) = ".md"
  THEN <<"./", "reference/">> \o SubSeq(t, 3, Len(t))
  ELSE IF t = <<"./", "CONTRIBUTING", ".md">>
  THEN <<"./", "contributing">>
  ELSE IF t = <<"./", "SECURITY-REVIEW", ".md">>
  THEN <<"https://github.com/Open-Workflow/OpenWorkflow-Specification/blob/main/",
         "SECURITY-REVIEW", ".md">>
  ELSE IF t = <<"./", "FAQ", ".md">>
  THEN <<"https://github.com/Open-Workflow/OpenWorkflow-Specification/blob/main/",
         "FAQ", ".md">>
  ELSE t

\* C22: the links of a synced root document are those of its source, in
\* order: './specs/X.md' became './reference/X.md', './CONTRIBUTING.md' became
\* './contributing', './SECURITY-REVIEW.md' and './FAQ.md' became their URLs
\* in the specification repository, and every other target, './examples/P'
\* among them, is the same lexemes as in the source.
C22_RootLinkRewriting ==
  \A f \in DOMAIN source.root :
    InDocs(TargetFile(f)) \in written =>
      LET links == LinkTargets(source.root[f].body)
          out   == LinkTargets(docs[InDocs(TargetFile(f))].body)
      IN  /\ out = [k \in 1..Len(links) |-> C22_Target(links[k])]
          /\ \A k \in 1..Len(links) :
               StartsWith(links[k], <<"./", "examples/">>) =>
                 StartsWith(out[k], <<"./", "examples/">>)

\* A README.md whose links were './specs/FAQ.md' and './CONTRIBUTING.md' was
\* written as intro.md with the links './reference/FAQ.md' and './contributing'.
C22_Witness ==
  /\ InDocs(IntroMd) \in written
  /\ README \in DOMAIN source.root
  /\ LinkTargets(source.root[README].body) =
       <<<<"./", "specs/", "FAQ", ".md">>, <<"./", "CONTRIBUTING", ".md">>>>
  /\ LinkTargets(docs[InDocs(IntroMd)].body) =
       <<<<"./", "reference/", "FAQ", ".md">>, <<"./", "contributing">>>>

\* C23: once source resolution has returned and the automation checkout
\* location exists, the nested directory is what was returned exactly when
\* the location holds no 'specs' directory and holds the nested directory;
\* a location that holds 'specs' is returned itself, nested copy or not.
C23_NestedDescent ==
  (specDir # "" /\ pathExists[".spec-source"]) =>
    /\ specDir = ".spec-source/OpenWorkflow-Specification"
         <=> (/\ ~pathExists[".spec-source/specs"]
              /\ pathExists[".spec-source/OpenWorkflow-Specification"])
    /\ pathExists[".spec-source/specs"] => specDir = ".spec-source"

\* The automation checkout holds both 'specs' and a nested copy, and the
\* checkout itself was returned.
C23_Witness ==
  /\ specDir = ".spec-source"
  /\ pathExists[".spec-source/specs"]
  /\ pathExists[".spec-source/OpenWorkflow-Specification"]
  /\ Len(started) >= 2

\* Whether fs.pathExists answers that a checkout given to the script is
\* selected: the automation checkout with 'specs' or a nested copy in it, or
\* the sibling checkout.
CheckoutSelected ==
  \/ /\ pathExists[".spec-source"]
     /\ pathExists[".spec-source/specs"] \/ pathExists[".spec-source/OpenWorkflow-Specification"]
  \/ pathExists["../OpenWorkflow-Specification"]

C24_Step ==
  \* at most one git operation in a run
  /\ Len(gitOps') <= 1
  \* the step of source resolution, unless a filesystem call failed in it
  /\ (pc = "getSpecDirectory" /\ pc' # pc /\ error' # "io") =>
       IF CheckoutSelected
       THEN /\ gitOps' = <<>>
            /\ specDir' # ".tmp-spec"
       ELSE /\ gitOps' = <<IF pathExists[".tmp-spec"] THEN "pull" ELSE "clone">>
            /\ pc' # "Failed" => specDir' = ".tmp-spec"
  \* no other step of a run performs a git operation
  /\ (pc \in Running \ {"getSpecDirectory"}) => gitOps' = gitOps

\* C24: a git operation is performed only when neither checkout was selected;
\* then exactly one runs in the run, a pull when the temporary location
\* exists and a clone otherwise, and source resolution returns the temporary
\* location.
C24_GitOperations == [][C24_Step]_vars

\* A second run pulled in the clone the first run made, and finished.
C24_Witness ==
  /\ run = 2
  /\ pc = "Done"
  /\ gitOps = <<"pull">>
  /\ specDir = ".tmp-spec"
  /\ ~CheckoutSelected

\* C25: after syncExamples succeeds, examples/index.md exists.  It is the
\* index of the source when the source has one, the index the destination
\* held before the run when only the destination had one (and the run did
\* not write it), and otherwise the synthesized index with id 'examples' and
\* sidebar_position 5.
C25_ExamplesIndex ==
  ExamplesSynced =>
    LET idx == <<"examples", <<"index", ".md">>>>
    IN  /\ idx \in DOMAIN docs
        /\ IF <<"index", ".md">> \in DOMAIN source.examples.files
           THEN docs[idx] = source.examples.files[<<"index", ".md">>]
           ELSE IF idx \in DOMAIN docsAtStart
           THEN docs[idx] = docsAtStart[idx] /\ idx \notin written
           ELSE /\ idx \in written
                /\ docs[idx].data.id = <<"examples">>
                /\ docs[idx].data.sidebar_position = <<"5">>
                /\ docs[idx].body = <<"# Examples", "\n">>

\* A first run finished whose source examples had no index while the
\* destination held one of an earlier run: that index is still there.
C25_Witness ==
  /\ pc = "Done"
  /\ run = 1
  /\ source.examples.exists
  /\ IndexMd \notin DOMAIN source.examples.files
  /\ InExamples(IndexMd) \in DOMAIN docsAtStart
  /\ docs[InExamples(IndexMd)] = DocStale

\* C26 as stated: for every link of a source specification document at most
\* one of the four substitutions of syncSpecs changes its target, and the four
\* substitutions applied to the body written leave it as it is.
C26_NoDoubleTransformation ==
  \A f \in DOMAIN source.specs.files :
    InReference(f) \in written =>
      LET body  == source.specs.files[f].body
          links == LinkTargets(body)
      IN  /\ \A k \in 1..Len(links) :
               Cardinality({n \in 1..4 :
                 LinkTargets(SpecLinks(n, body))[k]
                   # LinkTargets(SpecLinks(n - 1, body))[k]}) <= 1
          /\ SpecLinks(4, docs[InReference(f)].body) = docs[InReference(f)].body

C28_Title(file) ==
  LET segs == Split(SubSeq(file, 1, Len(file) - 1), "-")
  IN  Join([i \in 1..Len(segs) |-> Capitalize(segs[i])], " ")

\* C28: in the document written for a specification file whose name is words
\* and hyphens followed by '.md', title and sidebar_label are the derived
\* title and description is the derived title followed by ' specification',
\* whenever the source front-matter does not have the key.
C28_TitleDerivation ==
  \A f \in DOMAIN source.specs.files :
    InReference(f) \in written =>
      LET given == source.specs.files[f].data
          out   == docs[InReference(f)].data
      IN  /\ given.title = NoField => out.title = C28_Title(f)
          /\ given.sidebar_label = NoField => out.sidebar_label = C28_Title(f)
          /\ given.description = NoField =>
               out.description = C28_Title(f) \o <<" specification">>

\* connector-schema.md, whose front-matter gives no title, label or
\* description, was written with the title 'Connector Schema'.
C28_Witness ==
  LET f == <<"connector", "-", "schema", ".md">>
  IN  /\ <<"reference", f>> \in written
      /\ f \in DOMAIN source.specs.files
      /\ source.specs.files[f].data = NoData
      /\ docs[<<"reference", f>>].data.title = <<"Connector", " ", "Schema">>
      /\ docs[<<"reference", f>>].data.sidebar_label = <<"Connector", " ", "Schema">>
      /\ docs[<<"reference", f>>].data.description =
           <<"Connector", " ", "Schema", " specification">>

\* The destination paths the claim lets a run on the source create or
\* overwrite.
C29_Paths ==
  {<<"reference", f>> : f \in {g \in DOMAIN source.specs.files : Last(g) = ".md"}}
    \cup {<<"reference", <<"overview", ".md">>>>}
    \cup {<<"examples", r>> : r \in DOMAIN source.examples.files}
    \cup {<<"examples", <<"index", ".md">>>>}
    \cup {<<".", <<"intro", ".md">>>> : f \in {<<"README", ".md">>} \cap DOMAIN source.root}
    \cup {<<".", <<"contributing", ".md">>>> : f \in {<<"CONTRIBUTING", ".md">>} \cap DOMAIN source.root}
    \cup {<<".", <<"changelog", ".md">>>> : f \in {<<"CHANGELOG", ".md">>} \cap DOMAIN source.root}

\* C29: at every point of a run, the paths written are among the paths the
\* claim lists; every file the destination held before the run is still
\* there; every file outside the listed paths (another folder, a file of
\* reference/ or examples/ with no source, a root document whose source is
\* absent) was there before the run and has its text of before the run; the
\* only folders created are reference and examples.
C29_DestinationFrame ==
  /\ written \subseteq C29_Paths
  /\ DOMAIN docsAtStart \subseteq DOMAIN docs
  /\ \A p \in DOMAIN docs \ C29_Paths :
       p \in DOMAIN docsAtStart /\ docs[p] = docsAtStart[p]
  /\ \A p \in DOMAIN docs \ written :
       p \in DOMAIN docsAtStart /\ docs[p] = docsAtStart[p]
  /\ dirsAtStart \subseteq dirs
  /\ dirs \ dirsAtStart \subseteq {"reference", "examples"}

\* A run finished on a destination left by earlier runs, from a source with
\* no CHANGELOG.md: it wrote specification, example and root documents, and
\* the old changelog.md, reference/removed.md, examples/removed.json and
\* guides/quickstart.md are still there with their old text.
C29_Witness ==
  /\ pc = "Done"
  /\ CHANGELOG \notin DOMAIN source.root
  /\ <<"reference", <<"connector", "-", "schema", ".md">>>> \in written
  /\ <<"examples", CalculatorJson>> \in written
  /\ <<".", <<"intro", ".md">>>> \in written
  /\ \A p \in {<<".", <<"changelog", ".md">>>>, <<"reference", <<"removed", ".md">>>>,
               <<"examples", <<"removed", ".json">>>>, <<"guides", <<"quickstart", ".md">>>>} :
       p \in DOMAIN docsAtStart /\ p \in DOMAIN docs /\ docs[p] = DocStale

C30_Step ==
  \* the loop of syncSpecs is entered with the markdown files of the folder
  /\ (pc = "syncSpecs" /\ pc' = "syncSpecs.for") =>
       mdFiles' = {f \in DOMAIN source.specs.files : Last(f) = ".md"}
  \* an iteration takes one of them, and the loop ends when none is left
  /\ (pc = "syncSpecs.for" /\ pc' # "Failed") =>
       /\ \E f \in mdFiles : mdFiles' = mdFiles \ {f}
       /\ pc' = "syncSpecs.for" <=> mdFiles' # {}
  \* the loop of syncRootDocs is entered at its first file
  /\ (pc # "syncRootDocs" /\ pc' = "syncRootDocs") => rootIdx' = 1
  \* an iteration goes on to the next file, the third is the last
  /\ (pc = "syncRootDocs" /\ pc' # "Failed") =>
       IF rootIdx < 3
       THEN rootIdx' = rootIdx + 1 /\ pc' = "syncRootDocs"
       ELSE rootIdx = 3 /\ pc' # "syncRootDocs"

\* C30: when every call returns, a run that has started reaches Done or
\* Failed; the loop of syncSpecs takes one iteration for each markdown file
\* of the specs folder and the loop of syncRootDocs three.
C30_Termination ==
  /\ [][C30_Step]_vars
  /\ (pc \in Running) ~> (pc \in {"Done", "Failed"})

\* A run is Done after the loop of syncSpecs took its files, overview.md
\* among them, and the loop of syncRootDocs its three.
C30_Witness ==
  /\ pc = "Done"
  /\ DOMAIN source.specs.files = {ConnectorSchemaMd, OverviewMd}
  /\ {p \in written : p[1] = "reference"} =
       {<<"reference", ConnectorSchemaMd>>, <<"reference", OverviewMd>>}
  /\ Cardinality({p \in written : p[1] = "."}) = 3

====
